---- MODULE Spec2Model ----
(***************************************************************************)
(* Model of the LLaMA fine-tuning CLI (src/src/index.js):                  *)
(*   - ModelTrainer: train (and its train/validation split) /              *)
(*     trainingLoop / adjustLearningRate /                                 *)
(*     saveCheckpoint / saveModel                                          *)
(*   - DataProcessor: cleanData / augmentData / getGPT4Responses /         *)
(*     balanceDataset, and processData, the sequence of the stages         *)
(* Numbers: validation losses are in hundredths (0.95 is 95); a learning   *)
(* rate is kept as the exponent k of baseLR * 0.95^k; a string is a        *)
(* sequence of one-character strings.                                      *)
(***************************************************************************)
EXTENDS Integers, Sequences, FiniteSets, TLC

VARIABLES
    \* ---- ModelTrainer ----
    pc,             \* position of train()/trainingLoop()
    epochs,         \* the epochs argument of train (N)
    epoch,          \* loop variable of trainingLoop
    bestLoss,       \* let bestLoss
    patienceCount,  \* let patienceCount
    validMetrics,   \* const validMetrics of the current epoch
    losses,         \* history: validation loss of every validated epoch
    disk,           \* files written under OUTPUT_DIR by model.save / writeFile
    saveLog,        \* history: the model.save targets, in order
    lr,             \* model.optimizer.learningRate (decay exponent, or NoModel)
    configLR,       \* trainingConfig.learningRate (decay exponent of baseLR: 0)
    adjustLog,      \* history: the adjustLearningRate calls, [epoch, lr after]
    failure,        \* the call whose rejection ended train(), or "none"
    \* ---- DataProcessor.getGPT4Responses ----
    gpc,            \* position of getGPT4Responses
    data,           \* its argument: the records, each with a prompt
    i,              \* loop variable: offset of the current batch
    req,            \* per record, the state of its request's promise
    responses,      \* const responses
    batches,        \* history: the batches issued, as lists of record indices
    delays,         \* history: the offset i at which each delay was started
    \* ---- DataProcessor.cleanData ----
    cpc,            \* position of the caller of cleanData
    items,          \* the record objects (by identity): the prompt of each
    rawData,        \* the loaded list, as object identities
    cleanedData,    \* the list cleanData returned
    cleanedAgain,   \* the list cleanData returned for cleanedData
    processedData,  \* this.processedData
    loadedPrompts,  \* history: the prompts as loaded
    firstPrompts,   \* history: the prompts of cleanedData when it was returned
    \* ---- DataProcessor.balanceDataset ----
    bpc,            \* position of the caller of balanceDataset
    gpt4Responses,  \* its argument: the records, each with a response length
    balancedData,   \* the list balanceDataset returned
    \* ---- DataProcessor.augmentData ----
    apc,            \* position of augmentData
    augInput,       \* its argument: the cleaned records
    itemIx,         \* loop variable: index of the current record
    tempIx,         \* loop variable: index of the current temperature
    tokIx,          \* loop variable: index of the current token limit
    augmentedData,  \* const augmentedData
    variationLog,   \* history: the createPromptVariation calls and replies
    \* ---- ModelTrainer.train: the train/validation split ----
    spc,            \* position of train() around the split
    trainingData,   \* const trainingData
    trainData,      \* const trainData
    validData,      \* const validData
    \* ---- DataProcessor.processData ----
    ppc,            \* position of processData
    stageLog,       \* history: the stages completed, each with the list it
                    \* was given and the list it returned
    files,          \* the files under OUTPUT_DIR
    perror          \* the stage whose error processData rethrew, or "none"

trainerVars == <<pc, epochs, epoch, bestLoss, patienceCount, validMetrics,
                 losses, disk, saveLog, lr, configLR, adjustLog, failure>>

batchVars == <<gpc, data, i, req, responses, batches, delays>>

cleanVars == <<cpc, items, rawData, cleanedData, cleanedAgain, processedData,
               loadedPrompts, firstPrompts>>

balanceVars == <<bpc, gpt4Responses, balancedData>>

augmentVars == <<apc, augInput, itemIx, tempIx, tokIx, augmentedData, variationLog>>

splitVars == <<spc, trainingData, trainData, validData>>

pipelineVars == <<ppc, stageLog, files, perror>>

stageVars == <<balanceVars, augmentVars, splitVars, pipelineVars>>

processorVars == <<batchVars, cleanVars, stageVars>>

vars == <<trainerVars, processorVars>>

----------------------------------------------------------------------------
\* Bounds of the model
MaxEpochs == 6
MaxAdjustCalls == 3
EpochsAroundWarmup == 4
MaxRecords == 11
MaxRaw == 2
MaxPieces == 3
MaxBalance == 6
MaxAugment == 2
MaxBadReplies == 3
MaxDataset == 21
MaxPipeline == 2

\* Program constants
Infinity == 1000
maxPatience == 3
warmupSteps == 500
validationSplit == 1
batchSize == 5
minPromptLength == 10
baseLR == 0

\* Validation losses a validation pass can return, in hundredths; Infinity is
\* the top value (a diverged evaluation).
LossValues == {90, 95, 96, 97, 100, Infinity}

NoMetrics == [loss |-> -1]
NoModel == -1

\* path.join(OUTPUT_DIR, 'checkpoints', `checkpoint-epoch-${epoch}`)
checkpointPath(e) == [dir |-> "checkpoints", name |-> "checkpoint-epoch", n |-> e]
\* path.join(OUTPUT_DIR, 'final_model')
outputPath == [dir |-> "", name |-> "final_model", n |-> 0]

\* metadata = { epoch, timestamp, metrics, config }
Metadata(e, metrics) == [epoch |-> e, metrics |-> metrics]

\* what model.save leaves at a path
SnapshotFile(path) ==
    [path |-> path, file |-> "model", content |-> NoMetrics, epoch |-> 0]
\* what fs.writeFile(path/metadata.json, JSON.stringify(metadata)) leaves
MetadataFile(path, meta) ==
    [path |-> path, file |-> "metadata.json",
     content |-> meta.metrics, epoch |-> meta.epoch]

\* Math.floor(epoch / 2)
DecayExponent(e) == e \div 2

\* a plausible slip: the decay applied to the already decayed rate
adjustLearningRateCompounding(cur, base, e) ==
    IF e > warmupSteps THEN cur + DecayExponent(e) ELSE cur

\* adjustLearningRate(epoch, validationLoss): the optimizer's learning rate
\* after the call; base * 0.95^k is the exponent base + k
adjustLearningRate(cur, base, e) ==
    IF e > warmupSteps THEN base + DecayExponent(e) ELSE cur

\* a plausible slip: an equal loss counted as an improvement
ImprovesOrEqual(loss, best) == loss <= best

\* validMetrics.loss < bestLoss
Improves(loss, best) == loss < best

\* a plausible slip: one epoch too many before stopping
EarlyStopLate(count) == count > maxPatience

\* patienceCount >= maxPatience
EarlyStop(count) == count >= maxPatience

\* saveCheckpoint(epoch, metrics): what is on disk after it, by outcome
\*   "ok"        mkdir, model.save and the metadata write all succeed
\*   "metaFails" model.save succeeds, fs.writeFile rejects
\*   "saveFails" fs.mkdir or model.save rejects
saveCheckpoint(d, e, metrics, outcome) ==
    CASE outcome = "ok" ->
            d \cup {SnapshotFile(checkpointPath(e)),
                    MetadataFile(checkpointPath(e), Metadata(e, metrics))}
      [] outcome = "metaFails" -> d \cup {SnapshotFile(checkpointPath(e))}
      [] OTHER -> d

\* a plausible slip: the final model is never written
saveModelNothing(d, outcome) == d

\* saveModel(): mkdir and model.save of final_model
saveModel(d, outcome) ==
    IF outcome = "ok" THEN d \cup {SnapshotFile(outputPath)} ELSE d

----------------------------------------------------------------------------
\* DataProcessor.cleanData

\* a record without a prompt (item.prompt is undefined)
NoPrompt == <<"undefined">>

\* \s of the regular expressions, and the white space trim() removes
IsSpace(c) == c \in {" ", "\t"}

\* \w
IsWord(c) == c \in {"a", "b", "0", "_"}

\* a character outside [^\w\s.,?!-], which the last replace keeps
IsKept(c) == IsWord(c) \/ IsSpace(c) \/ c \in {".", ",", "?", "!", "-"}

RECURSIVE trimStart(_)
trimStart(str) ==
    IF str # << >> /\ IsSpace(Head(str)) THEN trimStart(Tail(str)) ELSE str

RECURSIVE trimEnd(_)
trimEnd(str) ==
    IF str # << >> /\ IsSpace(str[Len(str)])
    THEN trimEnd(SubSeq(str, 1, Len(str) - 1)) ELSE str

\* .trim()
trim(str) == trimEnd(trimStart(str))

\* .replace(/\s+/g, ' ')
RECURSIVE collapseSpaces(_)
collapseSpaces(str) ==
    IF str = << >> THEN << >>
    ELSE IF IsSpace(Head(str)) THEN <<" ">> \o collapseSpaces(trimStart(Tail(str)))
    ELSE <<Head(str)>> \o collapseSpaces(Tail(str))

\* .replace(/[^\w\s.,?!-]/g, '')
stripChars(str) == SelectSeq(str, IsKept)

\* item.prompt.trim().replace(/\s+/g, ' ').replace(/[^\w\s.,?!-]/g, '')
normalizePrompt(str) == stripChars(collapseSpaces(trim(str)))

\* !item.prompt || item.prompt.length < 10
tooShort(prompt) ==
    prompt = NoPrompt \/ prompt = << >> \/ Len(prompt) < minPromptLength

\* this.processedData.some(processed => processed.prompt === item.prompt)
isDuplicate(processed, prompt) ==
    \E k \in 1..Len(processed) : processed[k].prompt = prompt

\* data.filter(item => ...): the records are visited in order; an accepted
\* one has its prompt overwritten in place. The result is the objects after
\* the call and the list returned.
RECURSIVE cleanData(_, _, _)
cleanData(heap, list, processed) ==
    IF list = << >> THEN [heap |-> heap, out |-> << >>]
    ELSE LET item == Head(list) IN
         IF tooShort(heap[item]) \/ isDuplicate(processed, heap[item])
         THEN cleanData(heap, Tail(list), processed)
         ELSE LET rest == cleanData([heap EXCEPT ![item] = normalizePrompt(heap[item])],
                                    Tail(list), processed)
              IN  [heap |-> rest.heap, out |-> <<item>> \o rest.out]

\* the prompts of a list of records
PromptsOf(heap, list) == [j \in 1..Len(list) |-> heap[list[j]]]

\* the pieces the input prompts are made of: a word character, a word of
\* minPromptLength - 1 characters, a space, a tab, a character that is stripped
Pieces == {<<"a">>, [j \in 1..(minPromptLength - 1) |-> "a"], <<" ">>, <<"\t">>, <<"@">>}

RECURSIVE Concat(_)
Concat(ps) == IF ps = << >> THEN << >> ELSE Head(ps) \o Concat(Tail(ps))

\* the prompts of the input file: none, or up to MaxPieces pieces
PromptInputs ==
    {NoPrompt} \cup
    {Concat(ps) : ps \in UNION {[1..m -> Pieces] : m \in 0..MaxPieces}}

----------------------------------------------------------------------------
\* DataProcessor.getGPT4Responses

\* the prompts of the records handed to getGPT4Responses: three prompts in
\* turn, so that records with the same prompt occur
SamplePrompt(k) ==
    CASE k % 3 = 1 -> "prompt A"
      [] k % 3 = 2 -> "prompt B"
      [] OTHER -> "prompt C"

\* return null
Null == [isNull |-> TRUE, prompt |-> "", response |-> 0]

\* { prompt: item.prompt, response: completion.choices[0].message.content };
\* the completion of request k is written k
ResponseRecord(d, k) == [isNull |-> FALSE, prompt |-> d[k].prompt, response |-> k]

\* data.slice(i, i + batchSize), as the indices (from 1) of its records
Batch(d, ii) == [j \in 1..(IF ii + batchSize < Len(d) THEN batchSize ELSE Len(d) - ii)
                    |-> ii + j]

\* the value the promise of record k was fulfilled with
PromiseValue(d, r, k) == IF r[k] = "ok" THEN ResponseRecord(d, k) ELSE Null

\* a plausible slip: Promise.race / Promise.any in place of Promise.all
anySettled(r, batch) ==
    \E j \in 1..Len(batch) : r[batch[j]] \in {"ok", "failed"}

\* await Promise.all(batchPromises) can return: every promise is fulfilled
\* (the callback catches every error, so none is ever rejected)
allSettled(r, batch) ==
    \A j \in 1..Len(batch) : r[batch[j]] \in {"ok", "failed"}

\* a plausible slip: the null results are kept
keepAll(results) == results

\* batchResponses.filter(r => r !== null)
RECURSIVE filterNonNull(_)
filterNonNull(results) ==
    IF results = << >> THEN << >>
    ELSE IF Head(results) # Null THEN <<Head(results)>> \o filterNonNull(Tail(results))
    ELSE filterNonNull(Tail(results))

\* a plausible slip: a delay after the last batch as well
needsDelayInclusive(ii, n) == ii + batchSize <= n

\* if (i + batchSize < data.length)
needsDelay(ii, n) == ii + batchSize < n

BatchUnused ==
    /\ gpc = "unused"
    /\ data = << >>
    /\ i = 0
    /\ req = << >>
    /\ responses = << >>
    /\ batches = << >>
    /\ delays = << >>

CleanUnused ==
    /\ cpc = "unused"
    /\ items = << >>
    /\ rawData = << >>
    /\ cleanedData = << >>
    /\ cleanedAgain = << >>
    /\ processedData = << >>
    /\ loadedPrompts = << >>
    /\ firstPrompts = << >>

----------------------------------------------------------------------------
\* DataProcessor.balanceDataset.  A record is its identity and the length of
\* its response; the mean and the deviation are compared exactly, as
\* fractions: with n lengths of sum S, avgLength = S / n and
\* stdDev^2 = Q / n^3 for Q the sum of (n*b - S)^2 over the lengths b

RECURSIVE Sum(_)
Sum(ls) == IF ls = << >> THEN 0 ELSE Head(ls) + Sum(Tail(ls))

\* const responseLengths = data.map(item => item.response.length)
responseLengthsOf(d) == [k \in 1..Len(d) |-> d[k].length]

\* n * (b - avgLength)
ScaledDeviation(ls, b) == Len(ls) * b - Sum(ls)

\* n^3 * stdDev^2
ScaledSquares(ls) ==
    Sum([k \in 1..Len(ls) |-> ScaledDeviation(ls, ls[k]) * ScaledDeviation(ls, ls[k])])

\* |length - avgLength| <= 2 * stdDev
withinBandInclusive(ls, length) ==
    Len(ls) * ScaledDeviation(ls, length) * ScaledDeviation(ls, length)
        <= 4 * ScaledSquares(ls)

\* length > avgLength - 2 * stdDev && length < avgLength + 2 * stdDev
withinBand(ls, length) ==
    Len(ls) * ScaledDeviation(ls, length) * ScaledDeviation(ls, length)
        < 4 * ScaledSquares(ls)

\* return data.filter(item => ...): on the empty list the mean is NaN and
\* filter returns the empty list
balanceDataset(d) ==
    LET ls == responseLengthsOf(d)
        keep(item) == withinBand(ls, item.length)
    IN  SelectSeq(d, keep)

\* the response lengths tried: a short, a medium and a long response
ResponseLengths == {10, 55, 100}

BalanceUnused ==
    /\ bpc = "unused"
    /\ gpt4Responses = << >>
    /\ balancedData = << >>

----------------------------------------------------------------------------
\* DataProcessor.augmentData and createPromptVariation.  A record of the
\* output is named by what produced it: the input record it is or was made
\* from, and the temperature (in tenths) and token limit of the request, both
\* 0 for an original record

\* this.augmentationConfig
temperature == <<7, 10, 12>>
maxTokens == <<100, 150, 200>>

\* augmentedData.push(item)
Original(k) == [source |-> k, temperature |-> 0, maxTokens |-> 0]

\* augmentedData.push({ prompt: augmentedPrompt })
Variation(k, t, m) == [source |-> k, temperature |-> t, maxTokens |-> m]

\* what createPromptVariation returns: completion.choices[0].message.content
\* when the request succeeds, a text or the empty string, and null when it
\* fails (the catch block)
createPromptVariation(k, t, m, reply) ==
    CASE reply = "text"   -> [kind |-> "text", variation |-> Variation(k, t, m)]
      [] reply = "empty"  -> [kind |-> "empty", variation |-> Original(0)]
      [] reply = "failed" -> [kind |-> "null", variation |-> Original(0)]

\* a test that takes everything but null
NotNull(augmentedPrompt) == augmentedPrompt.kind # "null"

\* if (augmentedPrompt): null and the empty string are falsy
Truthy(augmentedPrompt) == augmentedPrompt.kind = "text"

\* the body of the innermost loop: the list after the reply
pushVariation(list, augmentedPrompt) ==
    IF Truthy(augmentedPrompt) THEN Append(list, augmentedPrompt.variation) ELSE list

AugmentUnused ==
    /\ apc = "unused"
    /\ augInput = << >>
    /\ itemIx = 0
    /\ tempIx = 0
    /\ tokIx = 0
    /\ augmentedData = << >>
    /\ variationLog = << >>

----------------------------------------------------------------------------
\* ModelTrainer.train: the split of the training data.  validationSplit is in
\* tenths (0.1 is 1); Math.floor(n * (1 - 0.1)) is (9 * n) \div 10 for every
\* list length a program can hold

\* a plausible slip: the split index rounded up
splitIndexRoundedUp(n) == (n * (10 - validationSplit) + 9) \div 10

\* Math.floor(trainingData.length * (1 - this.trainingConfig.validationSplit))
splitIndex(n) == (n * (10 - validationSplit)) \div 10

\* trainingData.slice(0, splitIndex)
sliceTo(d, end) == SubSeq(d, 1, end)

\* trainingData.slice(splitIndex)
sliceFrom(d, start) == SubSeq(d, start + 1, Len(d))

\* the lists loadTrainingData may return: the records 1..n in the order
\* given, which is any rotation of 1..n
TrainingDataInputs ==
    {[k \in 1..n |-> ((k + r - 1) % n) + 1] : n \in 1..MaxDataset, r \in 0..(MaxDataset - 1)}
        \cup {<< >>}

SplitUnused ==
    /\ spc = "unused"
    /\ trainingData = << >>
    /\ trainData = << >>
    /\ validData = << >>

----------------------------------------------------------------------------
\* DataProcessor.processData.  A list handed from stage to stage is named by
\* the stage that returned it and its number of records; what each stage does
\* to the records is modelled above, here only the size it can return counts

StageList(by, size) == [by |-> by, size |-> size]

\* what a stage without a result returns, and what loadRawData is given
NoList == StageList("none", 0)

\* the sizes a filter can return for a list of n records (cleanData,
\* balanceDataset, and getGPT4Responses, which drops the failed requests)
FilteredSizes(n) == 0..n

\* the sizes augmentData can return: every record, and up to one variation
\* per grid point for each
AugmentedSizes(n) == n..(n * (1 + Len(temperature) * Len(maxTokens)))

\* path.join(process.env.OUTPUT_DIR, name), written in full or, when
\* writeFile fails, possibly in part
WrittenFile(name, list) == [name |-> name, complete |-> TRUE, content |-> list]
PartFile(name) == [name |-> name, complete |-> FALSE, content |-> NoList]

\* this.processedData = processedData: the converted records have no prompt
savedRecords(list) == [k \in 1..list.size |-> [prompt |-> NoPrompt]]

PipelineUnused ==
    /\ ppc = "unused"
    /\ stageLog = << >>
    /\ files = {}
    /\ perror = "none"

StagesUnused == BalanceUnused /\ AugmentUnused /\ SplitUnused /\ PipelineUnused

ProcessorUnused == BatchUnused /\ CleanUnused /\ StagesUnused

----------------------------------------------------------------------------
\* ModelTrainer.train / trainingLoop

TrainerFresh ==
    /\ epoch = 0
    /\ bestLoss = Infinity
    /\ patienceCount = 0
    /\ validMetrics = NoMetrics
    /\ losses = << >>
    /\ disk = {}
    /\ saveLog = << >>
    /\ lr = NoModel
    /\ configLR = baseLR
    /\ adjustLog = << >>
    /\ failure = "none"

\* a ModelTrainer whose train is about to be called with epochs = N
TrainerInit ==
    /\ pc = "idle"
    /\ epochs \in 0..MaxEpochs
    /\ TrainerFresh

\* no ModelTrainer in use
TrainerUnused ==
    /\ pc = "unused"
    /\ epochs = 0
    /\ TrainerFresh

\* train(): loadModel (the optimizer gets trainingConfig.learningRate),
\* loadTrainingData, prepareDataset, then trainingLoop's prologue
StartTrain ==
    /\ pc = "idle"
    /\ UNCHANGED processorVars
    /\ lr' = configLR
    /\ epoch' = 1
    /\ bestLoss' = Infinity
    /\ patienceCount' = 0
    /\ pc' = "loopHead"
    /\ UNCHANGED <<epochs, validMetrics, losses, disk, saveLog, configLR,
                   adjustLog, failure>>

\* loadModel / loadTrainingData / prepareDataset rejects: train rethrows
StartTrainFails ==
    /\ pc = "idle"
    /\ UNCHANGED processorVars
    /\ pc' = "error"
    /\ failure' = "load"
    /\ UNCHANGED <<epochs, epoch, bestLoss, patienceCount, validMetrics, losses,
                   disk, saveLog, lr, configLR, adjustLog>>

\* a plausible slip: one epoch too many
LoopHeadOffByOne ==
    /\ pc = "loopHead"
    /\ UNCHANGED processorVars
    /\ pc' = IF epoch <= epochs + 1 THEN "training" ELSE "loopExit"
    /\ UNCHANGED <<epochs, epoch, bestLoss, patienceCount, validMetrics, losses,
                   disk, saveLog, lr, configLR, adjustLog, failure>>

\* for (...; epoch <= epochs; ...)
LoopHead ==
    /\ pc = "loopHead"
    /\ UNCHANGED processorVars
    /\ pc' = IF epoch <= epochs THEN "training" ELSE "loopExit"
    /\ UNCHANGED <<epochs, epoch, bestLoss, patienceCount, validMetrics, losses,
                   disk, saveLog, lr, configLR, adjustLog, failure>>

\* await this.trainEpoch(trainDataset, epoch)
TrainEpoch ==
    /\ pc = "training"
    /\ UNCHANGED processorVars
    /\ pc' = "validating"
    /\ UNCHANGED <<epochs, epoch, bestLoss, patienceCount, validMetrics, losses,
                   disk, saveLog, lr, configLR, adjustLog, failure>>

TrainEpochFails ==
    /\ pc = "training"
    /\ UNCHANGED processorVars
    /\ pc' = "error"
    /\ failure' = "trainEpoch"
    /\ UNCHANGED <<epochs, epoch, bestLoss, patienceCount, validMetrics, losses,
                   disk, saveLog, lr, configLR, adjustLog>>

\* const validMetrics = await this.validateEpoch(validDataset, epoch)
ValidateEpoch ==
    /\ pc = "validating"
    /\ UNCHANGED processorVars
    /\ \E l \in LossValues :
          /\ validMetrics' = [loss |-> l]
          /\ losses' = Append(losses, l)
    /\ pc' = "deciding"
    /\ UNCHANGED <<epochs, epoch, bestLoss, patienceCount, disk, saveLog, lr,
                   configLR, adjustLog, failure>>

\* a plausible slip: the loop catches the rejection and goes on
ValidateEpochFailsAndContinues ==
    /\ pc = "validating"
    /\ UNCHANGED processorVars
    /\ pc' = "adjusting"
    /\ failure' = "validateEpoch"
    /\ UNCHANGED <<epochs, epoch, bestLoss, patienceCount, validMetrics, losses,
                   disk, saveLog, lr, configLR, adjustLog>>

\* validateEpoch rejects: trainingLoop has no try, train logs and rethrows
ValidateEpochFails ==
    /\ pc = "validating"
    /\ UNCHANGED processorVars
    /\ pc' = "error"
    /\ failure' = "validateEpoch"
    /\ UNCHANGED <<epochs, epoch, bestLoss, patienceCount, validMetrics, losses,
                   disk, saveLog, lr, configLR, adjustLog>>

\* if (validMetrics.loss < bestLoss) ... else ...
Decide ==
    /\ pc = "deciding"
    /\ UNCHANGED processorVars
    /\ pc' = IF Improves(validMetrics.loss, bestLoss) THEN "checkpointing"
                                                      ELSE "incrementing"
    /\ UNCHANGED <<epochs, epoch, bestLoss, patienceCount, validMetrics, losses,
                   disk, saveLog, lr, configLR, adjustLog, failure>>

\* a plausible slip: the patience is not reset on an improvement
CheckpointNoReset ==
    /\ pc = "checkpointing"
    /\ UNCHANGED processorVars
    /\ bestLoss' = validMetrics.loss
    /\ \E outcome \in {"ok", "metaFails", "saveFails"} :
          /\ disk' = saveCheckpoint(disk, epoch, validMetrics, outcome)
          /\ saveLog' = IF outcome = "saveFails" THEN saveLog
                        ELSE Append(saveLog, checkpointPath(epoch))
          /\ pc' = IF outcome = "ok" THEN "adjusting" ELSE "error"
          /\ failure' = IF outcome = "ok" THEN failure ELSE "saveCheckpoint"
    /\ UNCHANGED <<epochs, epoch, patienceCount, validMetrics, losses, lr,
                   configLR, adjustLog>>

\* bestLoss = validMetrics.loss; patienceCount = 0; await this.saveCheckpoint(...)
Checkpoint ==
    /\ pc = "checkpointing"
    /\ UNCHANGED processorVars
    /\ bestLoss' = validMetrics.loss
    /\ patienceCount' = 0
    /\ \E outcome \in {"ok", "metaFails", "saveFails"} :
          /\ disk' = saveCheckpoint(disk, epoch, validMetrics, outcome)
          /\ saveLog' = IF outcome = "saveFails" THEN saveLog
                        ELSE Append(saveLog, checkpointPath(epoch))
          /\ pc' = IF outcome = "ok" THEN "adjusting" ELSE "error"
          /\ failure' = IF outcome = "ok" THEN failure ELSE "saveCheckpoint"
    /\ UNCHANGED <<epochs, epoch, validMetrics, losses, lr, configLR, adjustLog>>

\* a plausible slip: no break, the learning rate is adjusted after every epoch
IncrementPatienceNoBreak ==
    /\ pc = "incrementing"
    /\ UNCHANGED processorVars
    /\ patienceCount' = patienceCount + 1
    /\ pc' = "adjusting"
    /\ UNCHANGED <<epochs, epoch, bestLoss, validMetrics, losses, disk, saveLog,
                   lr, configLR, adjustLog, failure>>

\* patienceCount++; if (patienceCount >= maxPatience) break;
IncrementPatience ==
    /\ pc = "incrementing"
    /\ UNCHANGED processorVars
    /\ patienceCount' = patienceCount + 1
    /\ pc' = IF EarlyStop(patienceCount + 1) THEN "loopExit" ELSE "adjusting"
    /\ UNCHANGED <<epochs, epoch, bestLoss, validMetrics, losses, disk, saveLog,
                   lr, configLR, adjustLog, failure>>

\* this.adjustLearningRate(epoch, validMetrics.loss); epoch++
AdjustLearningRate ==
    /\ pc = "adjusting"
    /\ UNCHANGED processorVars
    /\ lr' = adjustLearningRate(lr, configLR, epoch)
    /\ adjustLog' = Append(adjustLog, [epoch |-> epoch, lr |-> lr'])
    /\ epoch' = epoch + 1
    /\ pc' = "loopHead"
    /\ UNCHANGED <<epochs, bestLoss, patienceCount, validMetrics, losses, disk,
                   saveLog, configLR, failure>>

\* await this.saveModel(); return true
SaveModel ==
    /\ pc = "loopExit"
    /\ UNCHANGED processorVars
    /\ \E outcome \in {"ok", "saveFails"} :
          /\ disk' = saveModel(disk, outcome)
          /\ saveLog' = IF outcome = "ok" THEN Append(saveLog, outputPath)
                        ELSE saveLog
          /\ pc' = IF outcome = "ok" THEN "done" ELSE "error"
          /\ failure' = IF outcome = "ok" THEN failure ELSE "saveModel"
    /\ UNCHANGED <<epochs, epoch, bestLoss, patienceCount, validMetrics, losses,
                   lr, configLR, adjustLog>>

Init == TrainerInit /\ ProcessorUnused

Next ==
    \/ StartTrain
    \/ StartTrainFails
    \/ LoopHead
    \/ TrainEpoch
    \/ TrainEpochFails
    \/ ValidateEpoch
    \/ ValidateEpochFails
    \/ Decide
    \/ Checkpoint
    \/ IncrementPatience
    \/ AdjustLearningRate
    \/ SaveModel

Spec == Init /\ [][Next]_vars

\* an async function goes on whenever the promise it awaits has settled
SpecFair == Spec /\ WF_vars(Next)

----------------------------------------------------------------------------
\* DataProcessor.getGPT4Responses: the loop

\* getGPT4Responses(data) is called with n records: const responses = [],
\* let i = 0
InitBatch ==
    /\ gpc = "loop"
    /\ \E n \in 0..MaxRecords :
          /\ data = [k \in 1..n |-> [prompt |-> SamplePrompt(k)]]
          /\ req = [k \in 1..n |-> "unissued"]
    /\ i = 0
    /\ responses = << >>
    /\ batches = << >>
    /\ delays = << >>
    /\ CleanUnused
    /\ StagesUnused
    /\ TrainerUnused

\* for (...; i < data.length; ...): batch.map(async ...) starts every request
\* of the batch before anything is awaited; otherwise return responses
GptLoopHead ==
    /\ gpc = "loop"
    /\ IF i < Len(data)
       THEN /\ req' = [k \in 1..Len(data) |->
                         IF \E j \in 1..Len(Batch(data, i)) : Batch(data, i)[j] = k
                         THEN "pending" ELSE req[k]]
            /\ batches' = Append(batches, Batch(data, i))
            /\ gpc' = "await"
       ELSE /\ gpc' = "done"
            /\ UNCHANGED <<req, batches>>
    /\ UNCHANGED <<data, i, responses, delays, trainerVars, cleanVars, stageVars>>

\* the completion of request k arrives: the callback returns its record
RequestSucceeds ==
    /\ gpc = "await"
    /\ \E k \in 1..Len(data) :
          /\ req[k] = "pending"
          /\ req' = [req EXCEPT ![k] = "ok"]
    /\ UNCHANGED <<gpc, data, i, responses, batches, delays, trainerVars, cleanVars, stageVars>>

\* request k fails: the callback logs the error and returns null
RequestFails ==
    /\ gpc = "await"
    /\ \E k \in 1..Len(data) :
          /\ req[k] = "pending"
          /\ req' = [req EXCEPT ![k] = "failed"]
    /\ UNCHANGED <<gpc, data, i, responses, batches, delays, trainerVars, cleanVars, stageVars>>

\* Promise.all returns; responses.push(...batchResponses.filter(...)); then
\* the delay is started, or the loop goes on (i += batchSize)
CollectBatch ==
    /\ gpc = "await"
    /\ allSettled(req, Batch(data, i))
    /\ LET batch == Batch(data, i)
           batchResponses == [j \in 1..Len(batch) |-> PromiseValue(data, req, batch[j])]
       IN  responses' = responses \o filterNonNull(batchResponses)
    /\ IF needsDelay(i, Len(data))
       THEN /\ gpc' = "delay"
            /\ delays' = Append(delays, i)
            /\ i' = i
       ELSE /\ gpc' = "loop"
            /\ i' = i + batchSize
            /\ UNCHANGED delays
    /\ UNCHANGED <<data, req, batches, trainerVars, cleanVars, stageVars>>

\* the setTimeout of the delay fires; i += batchSize
DelayElapsed ==
    /\ gpc = "delay"
    /\ gpc' = "loop"
    /\ i' = i + batchSize
    /\ UNCHANGED <<data, req, responses, batches, delays, trainerVars, cleanVars, stageVars>>

NextBatch ==
    \/ GptLoopHead
    \/ RequestSucceeds
    \/ RequestFails
    \/ CollectBatch
    \/ DelayElapsed

SpecBatch == InitBatch /\ [][NextBatch]_vars

----------------------------------------------------------------------------
\* DataProcessor.cleanData called on a freshly constructed DataProcessor with
\* the list loadRawData returned (JSON.parse: every record its own object),
\* and then called on the list it returned

InitClean ==
    /\ cpc = "loaded"
    /\ \E n \in 0..MaxRaw :
          /\ items \in [1..n -> PromptInputs]
          /\ rawData = [k \in 1..n |-> k]
    /\ loadedPrompts = items
    /\ cleanedData = << >>
    /\ cleanedAgain = << >>
    /\ processedData = << >>
    /\ firstPrompts = << >>
    /\ BatchUnused
    /\ StagesUnused
    /\ TrainerUnused

\* const cleanedData = await this.cleanData(rawData)
CleanData ==
    /\ cpc = "loaded"
    /\ LET result == cleanData(items, rawData, processedData)
       IN  /\ items' = result.heap
           /\ cleanedData' = result.out
           /\ firstPrompts' = PromptsOf(result.heap, result.out)
    /\ cpc' = "cleaned"
    /\ UNCHANGED <<rawData, cleanedAgain, processedData, loadedPrompts,
                   batchVars, trainerVars, stageVars>>

\* await this.cleanData(cleanedData)
CleanAgain ==
    /\ cpc = "cleaned"
    /\ LET result == cleanData(items, cleanedData, processedData)
       IN  /\ items' = result.heap
           /\ cleanedAgain' = result.out
    /\ cpc' = "cleanedTwice"
    /\ UNCHANGED <<rawData, cleanedData, processedData, loadedPrompts,
                   firstPrompts, batchVars, trainerVars, stageVars>>

NextClean ==
    \/ CleanData
    \/ CleanAgain

SpecClean == InitClean /\ [][NextClean]_vars

----------------------------------------------------------------------------
\* adjustLearningRate called on its own, on a loaded model, for epochs on
\* both sides of warmupSteps

LREpochs == (warmupSteps - EpochsAroundWarmup)..(warmupSteps + EpochsAroundWarmup)

InitLR ==
    /\ pc = "adjustOnly"
    /\ epochs = 0
    /\ epoch = 0
    /\ bestLoss = Infinity
    /\ patienceCount = 0
    /\ validMetrics = NoMetrics
    /\ losses = << >>
    /\ disk = {}
    /\ saveLog = << >>
    /\ lr = baseLR
    /\ configLR = baseLR
    /\ adjustLog = << >>
    /\ failure = "none"
    /\ ProcessorUnused

CallAdjustLearningRate ==
    /\ pc = "adjustOnly"
    /\ UNCHANGED processorVars
    /\ Len(adjustLog) < MaxAdjustCalls
    /\ \E e \in LREpochs :
          /\ lr' = adjustLearningRate(lr, configLR, e)
          /\ adjustLog' = Append(adjustLog, [epoch |-> e, lr |-> lr'])
    /\ UNCHANGED <<pc, epochs, epoch, bestLoss, patienceCount, validMetrics,
                   losses, disk, saveLog, configLR, failure>>

NextLR == CallAdjustLearningRate

SpecLR == InitLR /\ [][NextLR]_vars

----------------------------------------------------------------------------
\* DataProcessor.balanceDataset called with a list of records that have
\* responses

InitBalance ==
    /\ bpc = "collected"
    /\ \E n \in 0..MaxBalance :
          \E ls \in [1..n -> ResponseLengths] :
              gpt4Responses = [k \in 1..n |-> [id |-> k, length |-> ls[k]]]
    /\ balancedData = << >>
    /\ BatchUnused
    /\ CleanUnused
    /\ AugmentUnused
    /\ SplitUnused
    /\ PipelineUnused
    /\ TrainerUnused

\* const balancedData = await this.balanceDataset(gpt4Responses)
BalanceDataset ==
    /\ bpc = "collected"
    /\ balancedData' = balanceDataset(gpt4Responses)
    /\ bpc' = "balanced"
    /\ UNCHANGED <<gpt4Responses, trainerVars, batchVars, cleanVars, augmentVars, splitVars,
                   pipelineVars>>

NextBalance == BalanceDataset

SpecBalance == InitBalance /\ [][NextBalance]_vars

----------------------------------------------------------------------------
\* DataProcessor.augmentData called with a cleaned list; every request to the
\* API returns a text, returns an empty text, or fails

InitAugment ==
    /\ apc = "itemHead"
    /\ \E n \in 0..MaxAugment : augInput = [k \in 1..n |-> k]
    /\ itemIx = 1
    /\ tempIx = 0
    /\ tokIx = 0
    /\ augmentedData = << >>
    /\ variationLog = << >>
    /\ BatchUnused
    /\ CleanUnused
    /\ BalanceUnused
    /\ SplitUnused
    /\ PipelineUnused
    /\ TrainerUnused

\* for (const item of data): augmentedData.push(item), or the loop is over
\* and augmentData returns
AugmentItem ==
    /\ apc = "itemHead"
    /\ IF itemIx <= Len(augInput)
       THEN /\ augmentedData' = Append(augmentedData, Original(augInput[itemIx]))
            /\ tempIx' = 1
            /\ tokIx' = 1
            /\ apc' = "requesting"
       ELSE /\ apc' = "augmented"
            /\ UNCHANGED <<augmentedData, tempIx, tokIx>>
    /\ UNCHANGED <<augInput, itemIx, variationLog, trainerVars, batchVars,
                   cleanVars, balanceVars, splitVars, pipelineVars>>

BadReplies == Cardinality({k \in 1..Len(variationLog) : variationLog[k].reply # "text"})

\* one pass of the innermost loop: the request of the current grid point is
\* answered, and the loops advance
VariationReply(reply) ==
    /\ LET t == temperature[tempIx]
           m == maxTokens[tokIx]
           augmentedPrompt == createPromptVariation(augInput[itemIx], t, m, reply)
       IN  /\ variationLog' = Append(variationLog,
                  [source |-> augInput[itemIx], temperature |-> t, maxTokens |-> m,
                   reply |-> reply])
           /\ augmentedData' = pushVariation(augmentedData, augmentedPrompt)
    /\ IF tokIx < Len(maxTokens)
       THEN /\ tokIx' = tokIx + 1
            /\ UNCHANGED <<tempIx, itemIx, apc>>
       ELSE IF tempIx < Len(temperature)
       THEN /\ tempIx' = tempIx + 1
            /\ tokIx' = 1
            /\ UNCHANGED <<itemIx, apc>>
       ELSE /\ itemIx' = itemIx + 1
            /\ apc' = "itemHead"
            /\ UNCHANGED <<tempIx, tokIx>>
    /\ UNCHANGED <<augInput, trainerVars, batchVars, cleanVars, balanceVars,
                   splitVars, pipelineVars>>

\* the request returns a text
VariationReturnsText ==
    /\ apc = "requesting"
    /\ VariationReply("text")

\* the request returns, with an empty content
VariationReturnsEmpty ==
    /\ apc = "requesting"
    /\ BadReplies < MaxBadReplies
    /\ VariationReply("empty")

\* the request is rejected: createPromptVariation logs and returns null
VariationFails ==
    /\ apc = "requesting"
    /\ BadReplies < MaxBadReplies
    /\ VariationReply("failed")

NextAugment ==
    \/ AugmentItem
    \/ VariationReturnsText
    \/ VariationReturnsEmpty
    \/ VariationFails

SpecAugment == InitAugment /\ [][NextAugment]_vars

----------------------------------------------------------------------------
\* ModelTrainer.train from the return of loadTrainingData to the two slices

InitSplit ==
    /\ spc = "loaded"
    /\ trainingData \in TrainingDataInputs
    /\ trainData = << >>
    /\ validData = << >>
    /\ BatchUnused
    /\ CleanUnused
    /\ BalanceUnused
    /\ AugmentUnused
    /\ PipelineUnused
    /\ TrainerUnused

\* const splitIndex = ...; const trainData = ...; const validData = ...
Split ==
    /\ spc = "loaded"
    /\ trainData' = sliceTo(trainingData, splitIndex(Len(trainingData)))
    /\ validData' = sliceFrom(trainingData, splitIndex(Len(trainingData)))
    /\ spc' = "split"
    /\ UNCHANGED <<trainingData, trainerVars, batchVars, cleanVars, balanceVars,
                   augmentVars, pipelineVars>>

NextSplit == Split

SpecSplit == InitSplit /\ [][NextSplit]_vars

----------------------------------------------------------------------------
\* DataProcessor.processData on a freshly constructed DataProcessor

InitPipeline ==
    /\ ppc = "start"
    /\ stageLog = << >>
    /\ files = {}
    /\ perror = "none"
    /\ BatchUnused
    /\ CleanUnused
    /\ BalanceUnused
    /\ AugmentUnused
    /\ SplitUnused
    /\ TrainerUnused

\* the value of the const a stage's result was bound to
OutputOf(stage) ==
    (CHOOSE e \in {stageLog[k] : k \in 1..Len(stageLog)} : e.stage = stage).output

\* a stage returns: its result is bound and processData goes on
Returns(stage, input, output, next) ==
    /\ stageLog' = Append(stageLog, [stage |-> stage, input |-> input, output |-> output])
    /\ ppc' = next
    /\ UNCHANGED perror

\* a stage throws: the catch of processData logs and rethrows
Throws(stage) ==
    /\ ppc' = "error"
    /\ perror' = stage
    /\ UNCHANGED stageLog

PipelineFrame ==
    UNCHANGED <<trainerVars, batchVars, balanceVars, augmentVars, splitVars,
                cpc, items, rawData, cleanedData, cleanedAgain, loadedPrompts,
                firstPrompts>>

\* const rawData = await this.loadRawData()
LoadRawData ==
    /\ ppc = "start"
    /\ \E n \in 0..MaxPipeline :
          Returns("load", NoList, StageList("load", n), "loaded")
    /\ UNCHANGED <<files, processedData>>
    /\ PipelineFrame

\* readFile rejects or JSON.parse throws
LoadRawDataFails ==
    /\ ppc = "start"
    /\ Throws("load")
    /\ UNCHANGED <<files, processedData>>
    /\ PipelineFrame

\* const cleanedData = await this.cleanData(rawData)
CleanStage ==
    /\ ppc = "loaded"
    /\ \E n \in FilteredSizes(OutputOf("load").size) :
          Returns("clean", OutputOf("load"), StageList("clean", n), "cleaned")
    /\ UNCHANGED <<files, processedData>>
    /\ PipelineFrame

\* the file did not hold a list of records: data.filter throws
CleanStageFails ==
    /\ ppc = "loaded"
    /\ Throws("clean")
    /\ UNCHANGED <<files, processedData>>
    /\ PipelineFrame

\* const augmentedData = await this.augmentData(cleanedData): the requests
\* that fail are caught inside
AugmentStage ==
    /\ ppc = "cleaned"
    /\ \E n \in AugmentedSizes(OutputOf("clean").size) :
          Returns("augment", OutputOf("clean"), StageList("augment", n), "augmented")
    /\ UNCHANGED <<files, processedData>>
    /\ PipelineFrame

\* const gpt4Responses = await this.getGPT4Responses(augmentedData): the
\* requests that fail are caught inside
ResponsesStage ==
    /\ ppc = "augmented"
    /\ \E n \in FilteredSizes(OutputOf("augment").size) :
          Returns("responses", OutputOf("augment"), StageList("responses", n), "collected")
    /\ UNCHANGED <<files, processedData>>
    /\ PipelineFrame

\* const balancedData = await this.balanceDataset(gpt4Responses)
BalanceStage ==
    /\ ppc = "collected"
    /\ \E n \in FilteredSizes(OutputOf("responses").size) :
          Returns("balance", OutputOf("responses"), StageList("balance", n), "balanced")
    /\ UNCHANGED <<files, processedData>>
    /\ PipelineFrame

\* a response with null content: item.response.length throws
BalanceStageFails ==
    /\ ppc = "collected"
    /\ OutputOf("responses").size >= 1
    /\ Throws("balance")
    /\ UNCHANGED <<files, processedData>>
    /\ PipelineFrame

\* const llamaFormatData = await this.convertToLLaMAFormat(balancedData)
ConvertStage ==
    /\ ppc = "balanced"
    /\ Returns("convert", OutputOf("balance"),
               StageList("convert", OutputOf("balance").size), "converted")
    /\ UNCHANGED <<files, processedData>>
    /\ PipelineFrame

\* await this.saveProcessedData(llamaFormatData)
SaveProcessedData ==
    /\ ppc = "converted"
    /\ files' = {f \in files : f.name # "processed_data.json"}
                   \cup {WrittenFile("processed_data.json", OutputOf("convert"))}
    /\ processedData' = savedRecords(OutputOf("convert"))
    /\ Returns("save", OutputOf("convert"), NoList, "saved")
    /\ PipelineFrame

\* writeFile rejects, before or after part of the file is written
SaveProcessedDataFails ==
    /\ ppc = "converted"
    /\ \/ UNCHANGED files
       \/ files' = {f \in files : f.name # "processed_data.json"}
                      \cup {PartFile("processed_data.json")}
    /\ Throws("save")
    /\ UNCHANGED processedData
    /\ PipelineFrame

\* a plausible slip: the output is removed when the statistics fail
GenerateDatasetStatsFailsAndCleansUp ==
    /\ ppc = "saved"
    /\ files' = {}
    /\ Throws("stats")
    /\ UNCHANGED processedData
    /\ PipelineFrame

\* await this.generateDatasetStats(llamaFormatData); return true
GenerateDatasetStats ==
    /\ ppc = "saved"
    /\ files' = {f \in files : f.name # "dataset_stats.json"}
                   \cup {WrittenFile("dataset_stats.json", OutputOf("convert"))}
    /\ Returns("stats", OutputOf("convert"), NoList, "done")
    /\ UNCHANGED processedData
    /\ PipelineFrame

\* writeFile rejects, before or after part of the file is written
GenerateDatasetStatsFails ==
    /\ ppc = "saved"
    /\ \/ UNCHANGED files
       \/ files' = {f \in files : f.name # "dataset_stats.json"}
                      \cup {PartFile("dataset_stats.json")}
    /\ Throws("stats")
    /\ UNCHANGED processedData
    /\ PipelineFrame

NextPipeline ==
    \/ LoadRawData
    \/ LoadRawDataFails
    \/ CleanStage
    \/ CleanStageFails
    \/ AugmentStage
    \/ ResponsesStage
    \/ BalanceStage
    \/ BalanceStageFails
    \/ ConvertStage
    \/ SaveProcessedData
    \/ SaveProcessedDataFails
    \/ GenerateDatasetStats
    \/ GenerateDatasetStatsFails

SpecPipeline == InitPipeline /\ [][NextPipeline]_vars

----------------------------------------------------------------------------
\* Properties of the training loop, stated over the history of validation
\* losses

\* the loss of epoch k is strictly lower than that of every earlier epoch,
\* the best-seen value starting at +infinity
LowerThanAllEarlier(s, k) ==
    /\ s[k] < Infinity
    /\ \A j \in 1..(k - 1) : s[k] < s[j]

\* the number of consecutive non-improving epochs ending with epoch k
RECURSIVE NonImprovingRun(_, _)
NonImprovingRun(s, k) ==
    IF k = 0 \/ LowerThanAllEarlier(s, k) THEN 0
    ELSE 1 + NonImprovingRun(s, k - 1)

\* a complete checkpoint of epoch e: the model snapshot and its metadata.json
HasCheckpoint(e) ==
    /\ SnapshotFile(checkpointPath(e)) \in disk
    /\ \E f \in disk : f.path = checkpointPath(e) /\ f.file = "metadata.json"

CheckpointEpochs == {e \in 1..Len(losses) : HasCheckpoint(e)}

ExampleLosses == <<100, 90, 95, 96, 97>>

\* C1: the loop stops right after the first epoch at which the number of
\* consecutive non-improving epochs reaches 3: no epoch is trained or
\* validated after it, the loop ends only there or after epoch N, and for the
\* losses [1.0, 0.9, 0.95, 0.96, 0.97] with N >= 5 exactly 5 epochs run and
\* the checkpoints are those of epochs 1 and 2.
C1_EarlyStopping ==
    LET n == Len(losses) IN
    /\ \A k \in 1..(n - 1) : NonImprovingRun(losses, k) < 3
    /\ (n >= 1 /\ NonImprovingRun(losses, n) >= 3)
          => pc \in {"deciding", "incrementing", "loopExit", "done", "error"}
    /\ pc \in {"loopExit", "done"}
          => \/ n = epochs
             \/ n >= 1 /\ n <= epochs /\ NonImprovingRun(losses, n) = 3
    /\ (n >= 5 /\ SubSeq(losses, 1, 5) = ExampleLosses)
          => /\ n = 5
             /\ CheckpointEpochs = {1, 2}
             /\ pc \in {"deciding", "incrementing", "loopExit", "done", "error"}
    /\ (pc = "done" /\ epochs >= 5 /\ n >= 1
        /\ \A k \in 1..n : k <= 5 => losses[k] = ExampleLosses[k])
          => losses = ExampleLosses

C1_Witness ==
    /\ pc = "done"
    /\ epochs = 6
    /\ losses = ExampleLosses
    /\ CheckpointEpochs = {1, 2}

\* the epochs whose checkpoint decision has been carried out
DecidedEpochs ==
    IF pc \in {"deciding", "checkpointing"} THEN 1..(Len(losses) - 1)
    ELSE 1..Len(losses)

\* saveCheckpoint of epoch e rejected, which ended the run
SaveFailedAt(e) == failure = "saveCheckpoint" /\ e = epoch

\* C2: a checkpoint exists for epoch e exactly when the validation loss of e
\* is strictly lower than that of every earlier epoch (best-seen value
\* starting at +infinity); an equal or higher loss never leaves one; the
\* checkpoint carries the epoch's number and its validation metrics. (The
\* save of the epoch is taken to return: a rejected save ends the run.)
C2_CheckpointIffImproved ==
    /\ \A e \in 1..Len(losses) :
          /\ HasCheckpoint(e) => LowerThanAllEarlier(losses, e)
          /\ (e \in DecidedEpochs /\ ~SaveFailedAt(e) /\ LowerThanAllEarlier(losses, e))
                => HasCheckpoint(e)
    /\ \A f \in disk :
          f.path.dir = "checkpoints"
             => /\ f.path.n \in 1..Len(losses)
                /\ LowerThanAllEarlier(losses, f.path.n)
                /\ f.file = "metadata.json"
                      => /\ f.epoch = f.path.n
                         /\ f.content = [loss |-> losses[f.path.n]]

C2_Witness ==
    /\ pc = "done"
    /\ Len(losses) = 4
    /\ losses[2] < losses[1]
    /\ losses[3] = losses[2]
    /\ losses[4] < losses[3]
    /\ CheckpointEpochs = {1, 2, 4}

\* how often the final model was saved
FinalSaves == Cardinality({k \in 1..Len(saveLog) : saveLog[k] = outputPath})

\* C3: when the loop has ended without error (after N epochs or by early
\* stopping) and train returns, the final model has been saved exactly once,
\* as the last write, after every checkpoint, into final_model, which is no
\* checkpoint directory; this does not depend on the last epoch being the best.
C3_FinalModelSavedOnce ==
    /\ pc = "done"
          => /\ SnapshotFile(outputPath) \in disk
             /\ FinalSaves = 1
             /\ saveLog[Len(saveLog)] = outputPath
             /\ failure = "none"
    /\ FinalSaves <= 1
    /\ SnapshotFile(outputPath) \in disk => pc = "done"
    /\ pc = "loopExit" => failure = "none" /\ FinalSaves = 0
    /\ \A e \in 0..(epochs + 1) : checkpointPath(e) # outputPath

C3_Witness ==
    /\ pc = "done"
    /\ patienceCount = maxPatience
    /\ Len(losses) < epochs
    /\ CheckpointEpochs # {}
    /\ SnapshotFile(outputPath) \in disk

\* C4: adjustLearningRate leaves the optimizer's rate as it was for an epoch
\* <= warmupSteps and sets it to baseLR * 0.95^floor(epoch/2) for an epoch
\* > warmupSteps, whatever the earlier adjustments were; the configured
\* learning rate is never changed.
C4_LearningRateSchedule ==
    /\ configLR = baseLR
    /\ \A k \in 1..Len(adjustLog) :
          LET e == adjustLog[k].epoch
              before == IF k = 1 THEN baseLR ELSE adjustLog[k - 1].lr
          IN  /\ e <= warmupSteps => adjustLog[k].lr = before
              /\ e > warmupSteps => adjustLog[k].lr = baseLR + (e \div 2)
    /\ Len(adjustLog) > 0 => lr = adjustLog[Len(adjustLog)].lr

C4_Witness ==
    /\ Len(adjustLog) = 3
    /\ adjustLog[1] = [epoch |-> 504, lr |-> 252]
    /\ adjustLog[2] = [epoch |-> 502, lr |-> 251]
    /\ adjustLog[3] = [epoch |-> 500, lr |-> 251]
    /\ lr = 251

----------------------------------------------------------------------------
\* Properties of getGPT4Responses

\* the requests in flight
Pending == {k \in 1..Len(data) : req[k] = "pending"}

\* the number (from 0) of the batch record k belongs to
BatchOf(k) == (k - 1) \div 5

\* ceil(n / 5)
BatchCount(n) == (n + 4) \div 5

\* C5: the input is cut into consecutive batches of 5, the last possibly
\* shorter; a request of a batch is issued only when every request of the
\* batches before it has completed, successfully or not; at most 5 requests
\* are in flight at any moment.
C5_BatchesOfFive ==
    LET n == Len(data) IN
    /\ \A b \in 1..Len(batches) :
          /\ Len(batches[b]) = (IF 5 * b <= n THEN 5 ELSE n - 5 * (b - 1))
          /\ Len(batches[b]) >= 1
          /\ \A j \in 1..Len(batches[b]) : batches[b][j] = 5 * (b - 1) + j
    /\ \A k \in 1..n : req[k] # "unissued" <=> BatchOf(k) < Len(batches)
    /\ \A k \in 1..n : \A k2 \in 1..n :
          (req[k] # "unissued" /\ BatchOf(k2) < BatchOf(k))
             => req[k2] \in {"ok", "failed"}
    /\ Cardinality(Pending) <= 5
    /\ gpc = "done" => Len(batches) = BatchCount(n)

C5_Witness ==
    /\ gpc = "await"
    /\ Len(batches) = 2
    /\ req[1] = "failed"
    /\ req[2] = "ok"
    /\ Pending = 6..10

\* C6: a delay follows every batch but the last: ceil(n/5) - 1 delays for
\* n > 0 records and none for n = 0; each delay starts when every request of
\* its batch has completed and ends before a request of the next batch is
\* issued; no delay follows the final batch.
C6_DelayBetweenBatches ==
    LET n == Len(data) IN
    /\ gpc = "done"
          => Len(delays) = (IF n = 0 THEN 0 ELSE BatchCount(n) - 1)
    /\ \A d \in 1..Len(delays) :
          /\ delays[d] = 5 * (d - 1)
          /\ delays[d] + 5 < n
    /\ gpc = "delay"
          => /\ delays # << >> /\ delays[Len(delays)] = i
             /\ Len(batches) = Len(delays)
             /\ \A k \in 1..n :
                   /\ k <= i + 5 => req[k] \in {"ok", "failed"}
                   /\ k > i + 5 => req[k] = "unissued"
    /\ gpc = "await" => Len(delays) = Len(batches) - 1
    /\ gpc \in {"loop", "done"} /\ batches # << >>
          => Len(delays) = (IF 5 * Len(batches) < n THEN Len(batches)
                            ELSE Len(batches) - 1)

C6_Witness ==
    /\ gpc = "done"
    /\ Len(data) = 11
    /\ delays = <<0, 5>>
    /\ Len(batches) = 3

\* the records of the requests among 1..k that succeeded, in input order
RECURSIVE OkRecords(_, _, _)
OkRecords(d, r, k) ==
    IF k = 0 THEN << >>
    ELSE IF r[k] = "ok" THEN Append(OkRecords(d, r, k - 1), ResponseRecord(d, k))
    ELSE OkRecords(d, r, k - 1)

\* C7: whatever requests fail, getGPT4Responses returns one record for each
\* input record whose request succeeded, with that record's own prompt, and
\* nothing (no null) for a failed one; a failure keeps no request of the same
\* or a later batch from being issued and collected.
C7_FailuresFilteredOut ==
    LET n == Len(data) IN
    /\ \A j \in 1..Len(responses) :
          /\ responses[j] # Null
          /\ \E k \in 1..n :
                /\ req[k] = "ok"
                /\ responses[j] = [isNull |-> FALSE, prompt |-> data[k].prompt,
                                   response |-> k]
    /\ gpc \in {"loop", "done"}
          => responses = OkRecords(data, req, IF i < n THEN i ELSE n)
    /\ gpc = "done"
          => /\ \A k \in 1..n : req[k] \in {"ok", "failed"}
             /\ Len(responses) = Cardinality({k \in 1..n : req[k] = "ok"})

C7_Witness ==
    /\ gpc = "done"
    /\ Len(data) = 7
    /\ req[1] = "failed"
    /\ req[2] = "ok"
    /\ req[4] = "ok"
    /\ req[5] = "failed"
    /\ req[6] = "failed"
    /\ req[7] = "ok"
    /\ data[4].prompt = data[7].prompt
    /\ Len(responses) = 4

----------------------------------------------------------------------------
\* Properties of cleanData

\* C8: the output of cleanData on a freshly constructed DataProcessor holds
\* no two records with the same (normalized) prompt.
C8_NoDuplicatePrompts ==
    cpc = "cleaned"
       => \A j \in 1..Len(cleanedData) : \A k \in 1..Len(cleanedData) :
             j # k => items[cleanedData[j]] # items[cleanedData[k]]

\* C9: every record in the output of cleanData has a prompt of at least 10
\* characters, measured on the prompt as it is in the output.
C9_OutputPromptLength ==
    cpc = "cleaned"
       => \A j \in 1..Len(cleanedData) : Len(items[cleanedData[j]]) >= 10

\* C10: cleanData applied to its own output returns the same records with
\* the same prompts: nothing more is dropped and no prompt is changed.
C10_CleanIdempotent ==
    cpc = "cleanedTwice"
       => /\ cleanedAgain = cleanedData
          /\ PromptsOf(items, cleanedAgain) = firstPrompts

\* C15: no pipeline stage mutates the records it receives: after cleanData
\* returns, every record of the loaded raw input list still has exactly the
\* prompt it had before the call.
C15_InputNotMutated ==
    cpc = "cleaned"
       => /\ DOMAIN items = DOMAIN loadedPrompts
          /\ \A k \in 1..Len(rawData) : items[rawData[k]] = loadedPrompts[rawData[k]]

\* the for condition became false after epoch N
AllEpochsCompleted ==
    /\ epoch = epochs + 1
    /\ Len(losses) = epochs
    /\ patienceCount < maxPatience

\* the break was taken at the current epoch
EarlyStoppingFired ==
    /\ patienceCount = maxPatience
    /\ epoch <= epochs
    /\ Len(losses) = epoch

\* trainingLoop has returned
LoopEnded == pc \in {"loopExit", "done"} \/ failure = "saveModel"

\* a call made before or inside the loop was rejected
CallRejected == failure \in {"load", "trainEpoch", "validateEpoch", "saveCheckpoint"}

\* C17: for every epoch limit N >= 0 and every sequence of validation losses,
\* if every model call returns then trainingLoop eventually terminates,
\* having run at most N epochs, and it ends in exactly one of two ways: all N
\* epochs completed, or early stopping fired at an epoch <= N.
C17_LoopTerminates ==
    /\ [](/\ Len(losses) <= epochs
          /\ pc \in {"training", "validating", "deciding", "checkpointing",
                     "incrementing", "adjusting"} => epoch \in 1..epochs
          /\ LoopEnded => /\ AllEpochsCompleted \/ EarlyStoppingFired
                          /\ ~(AllEpochsCompleted /\ EarlyStoppingFired))
    /\ <>(LoopEnded \/ CallRejected)

\* the loop has ended by early stopping at the last epoch allowed
C17_Witness ==
    /\ pc = "loopExit"
    /\ epochs = 4
    /\ epoch = epochs
    /\ patienceCount = maxPatience

\* the order of the steps of an epoch up to the checkpoint decision: Training,
\* Validating, Deciding, then Checkpointing or IncrementingPatience; a step
\* whose call is rejected ends the run instead
StepsUpToDecision ==
    /\ pc = "training" => pc' \in {"validating", "error"}
    /\ pc = "validating" => pc' \in {"deciding", "error"}
    /\ pc = "deciding" => pc' \in {"checkpointing", "incrementing"}
    /\ pc = "checkpointing" => pc' \in {"adjusting", "error"}

\* after AdjustingLearningRate of epoch e, the next epoch or Stopped
StepsAfterAdjusting ==
    /\ pc = "adjusting"
          => /\ pc' = "loopHead"
             /\ epoch' = epoch + 1
             /\ Len(adjustLog') = epoch
    /\ (pc = "loopHead" /\ epoch >= 2)
          => /\ pc' \in {"training", "loopExit"}
             /\ Len(adjustLog) = epoch - 1

\* C18 (as stated): every epoch passes through Training, Validating,
\* Deciding, then Checkpointing or IncrementingPatience, then
\* AdjustingLearningRate, and only after AdjustingLearningRate does the loop
\* go on to the next epoch or to Stopped, including the epoch at which early
\* stopping fires.
C18_AdjustBeforeStopped ==
    [][/\ StepsUpToDecision
       /\ pc = "incrementing" => pc' = "adjusting"
       /\ StepsAfterAdjusting
       /\ (pc' = "loopExit" /\ epoch >= 1) => pc = "loopHead" /\ Len(adjustLog) = Len(losses)
      ]_vars

\* C18 (amended): every epoch passes through Training, Validating, Deciding,
\* then Checkpointing or IncrementingPatience; it then passes through
\* AdjustingLearningRate and on to the next epoch or to Stopped, except the
\* epoch at which early stopping fires, which goes from IncrementingPatience
\* straight to Stopped with no learning-rate adjustment.
C18_AdjustUnlessEarlyStop ==
    [][/\ StepsUpToDecision
       /\ pc = "incrementing"
             => pc' = IF patienceCount' >= maxPatience THEN "loopExit" ELSE "adjusting"
       /\ StepsAfterAdjusting
       /\ (pc' = "loopExit" /\ epoch >= 1)
             => \/ pc = "loopHead" /\ Len(adjustLog) = Len(losses)
                \/ /\ pc = "incrementing"
                   /\ patienceCount' = maxPatience
                   /\ Len(adjustLog) = Len(losses) - 1
      ]_vars

\* stopped early at epoch 5, after a checkpointed epoch 2; the learning rate
\* was adjusted for epochs 1..4 only
C18_Witness ==
    /\ pc = "loopExit"
    /\ patienceCount = maxPatience
    /\ epoch = 5
    /\ HasCheckpoint(2)
    /\ Len(adjustLog) = 4

\* the number of epochs whose outcome has been counted: the current epoch
\* is not, until its checkpoint or its patience increment is made
CountedEpochs ==
    IF pc \in {"deciding", "checkpointing", "incrementing"} THEN Len(losses) - 1
    ELSE Len(losses)

\* the most recent counted epoch that was checkpointed (the save that was
\* rejected and ended the run included), 0 if there is none
LastCheckpointedEpoch ==
    LET es == {e \in 1..CountedEpochs : HasCheckpoint(e) \/ SaveFailedAt(e)}
    IN  IF es = {} THEN 0 ELSE CHOOSE e \in es : \A o \in es : o <= e

\* C20: in every reachable state of trainingLoop the patience counter equals
\* the number of epochs completed since the most recent checkpointed epoch (or
\* since the start if none), it satisfies 0 <= patience <= 3, and a new epoch
\* is started only when patience < 3.
C20_PatienceInvariant ==
    /\ patienceCount = CountedEpochs - LastCheckpointedEpoch
    /\ 0 <= patienceCount
    /\ patienceCount <= maxPatience
    /\ pc \in {"training", "validating"} => patienceCount < maxPatience

\* epoch 5 is started with patience 2: epochs 1 and 2 were checkpointed,
\* epochs 3 and 4 did not improve
C20_Witness ==
    /\ pc = "training"
    /\ epoch = 5
    /\ CheckpointEpochs = {1, 2}
    /\ patienceCount = 2

\* a rejection inside trainingLoop
LoopFailure == failure \in {"trainEpoch", "validateEpoch", "saveCheckpoint"}

\* C14: if a checkpoint save, a training step or a validation step fails
\* during epoch e, the loop aborts: no epoch after e is trained or validated,
\* no learning-rate adjustment and no later checkpoint is made, the final
\* model is not saved, train reports the error to its caller (and does
\* nothing more), and the checkpoints written before the failure remain.
C14_FailureAbortsLoop ==
    LoopFailure
        => /\ pc = "error"
           /\ ~ENABLED Next
           /\ Len(losses) = IF failure = "saveCheckpoint" THEN epoch ELSE epoch - 1
           /\ Len(adjustLog) = epoch - 1
           /\ \A k \in 1..Len(adjustLog) : adjustLog[k].epoch < epoch
           /\ \A k \in 1..Len(saveLog) :
                  saveLog[k] # outputPath /\ saveLog[k].n <= epoch
           /\ \A f \in disk : f.path # outputPath /\ f.path.n <= epoch
           /\ \A e \in 1..(epoch - 1) :
                  LowerThanAllEarlier(losses, e) => HasCheckpoint(e)

\* the checkpoint save of epoch 3 failed after its snapshot was written, the
\* checkpoints of epochs 1 and 2 are in place
C14_Witness ==
    /\ failure = "saveCheckpoint"
    /\ epoch = 3
    /\ epochs > 3
    /\ HasCheckpoint(1)
    /\ HasCheckpoint(2)
    /\ SnapshotFile(checkpointPath(3)) \in disk
    /\ ~HasCheckpoint(3)

----------------------------------------------------------------------------
\* Properties of balanceDataset

\* C11: balanceDataset applied to N >= 1 records that all have the same
\* response length (standard deviation 0) returns all N records
C11_ZeroVarianceKeepsAll ==
    (/\ bpc = "balanced"
     /\ Len(gpt4Responses) >= 1
     /\ \A k \in 1..Len(gpt4Responses) :
            gpt4Responses[k].length = gpt4Responses[1].length)
        => balancedData = gpt4Responses

\* the records of d whose response length lies within the <= 2 sigma band of
\* the lengths of d, in the order of d
InclusiveBand(d) ==
    LET ls == responseLengthsOf(d)
        keep(item) == withinBandInclusive(ls, item.length)
    IN  SelectSeq(d, keep)

ExampleLengths == <<10, 10, 10, 10, 100>>

\* C12: for a non-empty input balanceDataset returns, in input order, exactly
\* the records with |length - mean| <= 2 * stddev, mean and population
\* standard deviation taken once over the full input; for the lengths
\* [10,10,10,10,100] (mean 28, stddev 36) these are the survivors
C12_TwoSigmaBand ==
    (bpc = "balanced" /\ Len(gpt4Responses) >= 1)
        => /\ balancedData = InclusiveBand(gpt4Responses)
           /\ responseLengthsOf(gpt4Responses) = ExampleLengths
                  => LET inBand(item) == /\ 28 - 2 * 36 <= item.length
                                         /\ item.length <= 28 + 2 * 36
                     IN  balancedData = SelectSeq(gpt4Responses, inBand)

----------------------------------------------------------------------------
\* Properties of augmentData

GridSize == Len(temperature) * Len(maxTokens)

\* the j-th request augmentData makes for a list d: records in input order,
\* for each the temperatures in order, for each the token limits in order
GridRequest(d, j) ==
    [source      |-> d[((j - 1) \div GridSize) + 1],
     temperature |-> temperature[(((j - 1) % GridSize) \div Len(maxTokens)) + 1],
     maxTokens   |-> maxTokens[((j - 1) % Len(maxTokens)) + 1]]

RequestOf(entry) ==
    [source |-> entry.source, temperature |-> entry.temperature,
     maxTokens |-> entry.maxTokens]

\* the variation records of the requests j..Len(log) made for record k whose
\* reply is one of replies, in request order
RECURSIVE VariationsOf(_, _, _, _)
VariationsOf(log, k, replies, j) ==
    IF j > Len(log) THEN << >>
    ELSE (IF log[j].source = k /\ log[j].reply \in replies
          THEN <<Variation(k, log[j].temperature, log[j].maxTokens)>>
          ELSE << >>) \o VariationsOf(log, k, replies, j + 1)

\* every record of d from the n-th on, each followed by its variations
RECURSIVE OriginalsWithVariations(_, _, _, _)
OriginalsWithVariations(d, log, replies, n) ==
    IF n > Len(d) THEN << >>
    ELSE <<Original(d[n])>> \o VariationsOf(log, d[n], replies, 1)
             \o OriginalsWithVariations(d, log, replies, n + 1)

\* K*T*M requests, one per record and grid point, in loop order, whatever the
\* replies; between K and K*(1 + T*M) records
FanOut ==
    /\ Len(variationLog) = Len(augInput) * GridSize
    /\ \A j \in 1..Len(variationLog) :
           RequestOf(variationLog[j]) = GridRequest(augInput, j)
    /\ Len(augmentedData) >= Len(augInput)
    /\ Len(augmentedData) <= Len(augInput) * (1 + GridSize)

\* C13 (as stated): augmentData issues exactly K*T*M variation requests and
\* returns between K and K*(1 + T*M) records: every original once and in input
\* order, each followed by one record per variation request that succeeded; a
\* failed request contributes no record and does not stop the others
C13_OneRecordPerSucceededRequest ==
    apc = "augmented"
        => /\ FanOut
           /\ augmentedData =
                  OriginalsWithVariations(augInput, variationLog, {"text", "empty"}, 1)

\* C13 (amended): as above, with one record per variation request that
\* returned a non-empty text; a request that failed or that returned an empty
\* text contributes no record, and neither stops the remaining requests
C13_OneRecordPerNonEmptyVariation ==
    apc = "augmented"
        => /\ FanOut
           /\ augmentedData =
                  OriginalsWithVariations(augInput, variationLog, {"text"}, 1)

\* two records; for the first a request failed, a later one returned an empty
\* text and a later one a text, and the second record has a variation too
C13_Witness ==
    /\ apc = "augmented"
    /\ Len(augInput) = 2
    /\ \E a, b, c \in 1..GridSize :
           /\ a < b /\ b < c
           /\ variationLog[a].reply = "failed"
           /\ variationLog[b].reply = "empty"
           /\ variationLog[c].reply = "text"
    /\ \E j \in (GridSize + 1)..Len(variationLog) : variationLog[j].reply = "text"
    /\ Len(augmentedData) = 2 + Len(variationLog) - 2

----------------------------------------------------------------------------
\* Properties of the train/validation split

\* k is floor(n * 0.9)
IsFloorOfNineTenths(k, n) == 10 * k <= 9 * n /\ 9 * n < 10 * (k + 1)

Range(d) == {d[k] : k \in 1..Len(d)}

\* C16: for every dataset of length n, train splits it into a training
\* prefix of the first floor(n * (1 - validationSplit)) records and a
\* validation suffix of the remaining records, taken from the end: the two
\* parts are disjoint, their concatenation is the dataset in its given order,
\* and both parts are fixed by the input ordering alone.
C16_PrefixSuffixSplit ==
    spc = "split"
        => LET n == Len(trainingData) IN
           /\ IsFloorOfNineTenths(Len(trainData), n)
           /\ \A k \in 1..Len(trainData) : trainData[k] = trainingData[k]
           /\ Len(validData) = n - Len(trainData)
           /\ \A k \in 1..Len(validData) :
                  validData[k] = trainingData[n - Len(validData) + k]
           /\ Range(trainData) \cap Range(validData) = {}
           /\ trainData \o validData = trainingData

\* 21 records in an order other than 1..21: 18 for training, the last 3 for
\* validation
C16_Witness ==
    /\ spc = "split"
    /\ Len(trainingData) = 21
    /\ trainingData[1] = 5
    /\ Len(trainData) = 18
    /\ validData = <<2, 3, 4>>

----------------------------------------------------------------------------
\* Properties of processData

StageOrder == <<"load", "clean", "augment", "responses", "balance", "convert",
                "save", "stats">>

\* the list the k-th stage must be given: the result of the stage before it,
\* and the converted list for both writes
ExpectedInput(k) ==
    IF k = 1 THEN NoList
    ELSE IF k <= 7 THEN stageLog[k - 1].output
    ELSE stageLog[6].output

\* C19: processData runs its stages strictly in the order load, clean,
\* augment, response collection, balance, convert, write processed_data.json,
\* write dataset_stats.json, each stage starting only after the previous one
\* has completed, with its full output; if a stage fails, no later stage
\* runs, the error is propagated to the caller, and any file already written
\* (processed_data.json when the statistics step fails) is left on disk
\* unchanged.
C19_StagesInOrder ==
    /\ Len(stageLog) <= Len(StageOrder)
    /\ \A k \in 1..Len(stageLog) :
          /\ stageLog[k].stage = StageOrder[k]
          /\ stageLog[k].input = ExpectedInput(k)
    /\ ppc = "done" <=> (Len(stageLog) = Len(StageOrder) /\ perror = "none")
    /\ ppc = "error" <=> perror # "none"
    /\ perror # "none"
          => /\ ~ENABLED NextPipeline
             /\ Len(stageLog) < Len(StageOrder)
             /\ perror = StageOrder[Len(stageLog) + 1]
    /\ Len(stageLog) >= 7
          <=> \E f \in files : f.name = "processed_data.json" /\ f.complete
    /\ Len(stageLog) >= 7
          => WrittenFile("processed_data.json", stageLog[6].output) \in files
    /\ Len(stageLog) = 8
          <=> \E f \in files : f.name = "dataset_stats.json" /\ f.complete
    /\ Len(stageLog) = 8
          => WrittenFile("dataset_stats.json", stageLog[6].output) \in files
    /\ \A f \in files : f.name \in {"processed_data.json", "dataset_stats.json"}
    /\ \A f, g \in files : f.name = g.name => f = g

\* the statistics step failed with its file partly written; the processed
\* data, four records, are on disk in full
C19_Witness ==
    /\ perror = "stats"
    /\ PartFile("dataset_stats.json") \in files
    /\ \E f \in files :
          /\ f = WrittenFile("processed_data.json", StageList("convert", 4))
    /\ Len(stageLog) = 7

====
